---- MODULE Spec2Model ----
(***************************************************************************)
(* pbsync (src/main.go): copies generated proto sources from the Bazel     *)
(* output tree into the workspace.                                         *)
(*                                                                         *)
(* Representation.  A file path is the sequence of its segments           *)
(* ("/ws/pkg/a.proto" is <<"ws","pkg","a.proto">>), so filepath.Join is    *)
(* concatenation, filepath.Dir drops the last segment and filepath.Base   *)
(* is the last segment.  A Go importpath attribute is kept the same way.  *)
(* A file's content is a string; "" is the empty file.  An error is a     *)
(* string naming its kind; "" is nil.                                      *)
(***************************************************************************)
EXTENDS Integers, Sequences, FiniteSets, TLC

\* ------------------------------------------------------------------ bounds

\* Rules per BUILD file drawn for the parser specification.
MaxRules == 3
\* Lines the version-control listing reports.
MaxProtos == 2
\* Workspace roots on the command line.
MaxDirs == 2

\* ------------------------------------------------------- program constants

goProtoLibrary == "go_proto_library"
tsProtoLibrary == "ts_proto_library"
protoLibrary == "proto_library"

\* ----------------------------------------------------------------- paths

Dir(p) == IF p = <<>> THEN <<>> ELSE SubSeq(p, 1, Len(p) - 1)

Base(p) == IF p = <<>> THEN "/" ELSE p[Len(p)]

Join(p, q) == p \o q

\* strings.TrimPrefix(protoPath, workspaceRoot) on segment sequences
TrimPrefixPath(p, prefix) ==
    IF Len(p) >= Len(prefix) /\ SubSeq(p, 1, Len(prefix)) = prefix
    THEN SubSeq(p, Len(prefix) + 1, Len(p))
    ELSE p

\* ----------------------------------------------------------------- maps

\* A Go map[string]string read: the zero value "" for a missing key.
MapGet(m, k) == IF k \in DOMAIN m THEN m[k] ELSE ""

MapPut(m, k, v) == [x \in DOMAIN m \cup {k} |-> IF x = k THEN v ELSE m[x]]

\* A Go map[string][]T read: nil (the empty sequence) for a missing key.
ListGet(m, k) == IF k \in DOMAIN m THEN m[k] ELSE <<>>

EmptyMap == [x \in {} |-> ""]

\* ------------------------------------------------------- BUILD file rules

\* The unprefixed names a label or srcs entry of the model can carry.
LabelNames == {"a.proto", "b.proto", "foo", "bar"}

HasColonPrefix(s) == \E n \in LabelNames : s = ":" \o n

\* strings.TrimPrefix(s, ":") and s[1:] for a string that starts with ":"
TrimColon(s) ==
    IF HasColonPrefix(s) THEN CHOOSE n \in LabelNames : s = ":" \o n ELSE s

\* One call expression of a BUILD file, as buildtools hands it to the parser:
\* Kind(), Name() ("" when the rule has none), AttrStrings("srcs") (hasSrcs
\* FALSE is nil), AttrString("proto") and AttrString("importpath") ("" when
\* absent).
MkRule(kind, name, hasSrcs, srcs, proto, importpath) ==
    [kind |-> kind, name |-> name, hasSrcs |-> hasSrcs, srcs |-> srcs,
     proto |-> proto, importpath |-> importpath]

PL(name, srcs) == MkRule(protoLibrary, name, TRUE, srcs, "", <<>>)

GoRule(name, proto, importpath) ==
    MkRule(goProtoLibrary, name, FALSE, <<>>, proto, importpath)

TsRule(name, proto) == MkRule(tsProtoLibrary, name, FALSE, <<>>, proto, <<>>)

\* type languageProtoRule
LangRule(kind, name, protoRuleName, importPath) ==
    [kind |-> kind, name |-> name, protoRuleName |-> protoRuleName,
     importPath |-> importPath]

RECURSIVE AddSrcs(_, _, _)
\* The loop over one proto_library's srcs: [err, m].
AddSrcs(m, srcs, name) ==
    IF srcs = <<>> THEN [err |-> "", m |-> m]
    ELSE LET src == TrimColon(Head(srcs)) IN
         IF MapGet(m, src) # ""
         THEN [err |-> "multiple-proto-rules", m |-> m]
         ELSE AddSrcs(MapPut(m, src, name), Tail(srcs), name)

RECURSIVE ProtoRulesLoop(_, _)
\* The loop over buildFile.Rules("proto_library"): [err, m].
ProtoRulesLoop(m, rules) ==
    IF rules = <<>> THEN [err |-> "", m |-> m]
    ELSE LET r == Head(rules) IN
         IF r.kind # protoLibrary THEN ProtoRulesLoop(m, Tail(rules))
         ELSE IF ~r.hasSrcs THEN [err |-> "no-srcs", m |-> m]
         ELSE LET a == AddSrcs(m, r.srcs, r.name) IN
              IF a.err # "" THEN a ELSE ProtoRulesLoop(a.m, Tail(rules))

\* Mutant: the proto reference is not checked for being local.
LangRuleStepNoLocalCheck(m, r) ==
    IF r.kind # goProtoLibrary /\ r.kind # tsProtoLibrary
    THEN [err |-> "", m |-> m]
    ELSE IF r.proto = "" THEN [err |-> "missing-proto", m |-> m]
    ELSE IF r.kind = goProtoLibrary /\ r.importpath = <<>>
    THEN [err |-> "missing-importpath", m |-> m]
    ELSE LET protoRuleName == TrimColon(r.proto) IN
         [err |-> "",
          m |-> [x \in DOMAIN m \cup {protoRuleName} |->
                   IF x = protoRuleName
                   THEN Append(ListGet(m, x),
                               LangRule(r.kind, r.name, protoRuleName, r.importpath))
                   ELSE m[x]]]

\* One iteration of the loop over buildFile.Rules(""): [err, m].
LangRuleStep(m, r) ==
    IF r.kind # goProtoLibrary /\ r.kind # tsProtoLibrary
    THEN [err |-> "", m |-> m]
    ELSE IF r.proto = "" THEN [err |-> "missing-proto", m |-> m]
    ELSE IF ~HasColonPrefix(r.proto) THEN [err |-> "", m |-> m]
    ELSE IF r.kind = goProtoLibrary /\ r.importpath = <<>>
    THEN [err |-> "missing-importpath", m |-> m]
    ELSE LET protoRuleName == TrimColon(r.proto) IN
         [err |-> "",
          m |-> [x \in DOMAIN m \cup {protoRuleName} |->
                   IF x = protoRuleName
                   THEN Append(ListGet(m, x),
                               LangRule(r.kind, r.name, protoRuleName, r.importpath))
                   ELSE m[x]]]

RECURSIVE LangRulesLoop(_, _)
LangRulesLoop(m, rules) ==
    IF rules = <<>> THEN [err |-> "", m |-> m]
    ELSE LET s == LangRuleStep(m, Head(rules)) IN
         IF s.err # "" THEN s ELSE LangRulesLoop(s.m, Tail(rules))

NoBuildFile == [protoFileToRule |-> EmptyMap, protoRuleToLangProtoRules |-> EmptyMap]

\* A BUILD file on disk: st is "ok" (rules are its call expressions),
\* "absent" (ReadFile fails with ENOENT), "unreadable" (ReadFile fails
\* otherwise) or "malformed" (build.ParseBuild fails).
BuildOk(rules) == [st |-> "ok", rules |-> rules]

BuildAbsent == [st |-> "absent", rules |-> <<>>]

BuildUnreadable == [st |-> "unreadable", rules |-> <<>>]

BuildMalformed == [st |-> "malformed", rules |-> <<>>]

\* parseBuildFile: [err, val].  err "notexist" is the one os.IsNotExist accepts.
parseBuildFile(file) ==
    IF file.st = "absent" THEN [err |-> "notexist", val |-> NoBuildFile]
    ELSE IF file.st = "unreadable" THEN [err |-> "io", val |-> NoBuildFile]
    ELSE IF file.st = "malformed" THEN [err |-> "parse", val |-> NoBuildFile]
    ELSE LET p == ProtoRulesLoop(EmptyMap, file.rules) IN
         IF p.err # "" THEN [err |-> p.err, val |-> NoBuildFile]
         ELSE LET l == LangRulesLoop(EmptyMap, file.rules) IN
              IF l.err # "" THEN [err |-> l.err, val |-> NoBuildFile]
              ELSE [err |-> "",
                    val |-> [protoFileToRule |-> p.m,
                             protoRuleToLangProtoRules |-> l.m]]

\* Mutant: every lookup succeeds, a miss with no rules.
getLangProtoRulesForProtoFound(b, protoFile) == [ok |-> TRUE, rules |-> <<>>]

\* parsedBuildFile.getLangProtoRulesForProto: [ok, rules]
getLangProtoRulesForProto(b, protoFile) ==
    LET basename == Base(protoFile) IN
    IF basename \notin DOMAIN b.protoFileToRule THEN [ok |-> FALSE, rules |-> <<>>]
    ELSE LET protoRule == b.protoFileToRule[basename] IN
         IF protoRule \notin DOMAIN b.protoRuleToLangProtoRules
         THEN [ok |-> FALSE, rules |-> <<>>]
         ELSE [ok |-> TRUE, rules |-> b.protoRuleToLangProtoRules[protoRule]]

\* ------------------------------------------------------- artifact locator

\* The characters the model gives a host name in place of its first dot.
AnyChar == {".", "x"}

\* The regexp github.com on a whole segment: the dot is not escaped and
\* matches any character.
MatchesGithubCom(seg) == \E c \in AnyChar : seg = "github" \o c \o "com"

\* githubRepoRe, ^github.com/(.+?)/(.+?)/ : on a path of non-empty segments
\* it matches the host, the org and the repo segment when a further segment
\* follows the repo's "/".
githubRepoReMatches(importPath) ==
    Len(importPath) >= 4 /\ MatchesGithubCom(importPath[1])

\* githubRepoRe.ReplaceAllLiteralString(importPath, "")
StripRepo(importPath) ==
    IF githubRepoReMatches(importPath)
    THEN SubSeq(importPath, 4, Len(importPath))
    ELSE importPath

\* Base names of generated Go files, in the order filepath.Glob sorts them.
GoFileNames == <<"x.pb.go">>

GoFileStems == {"x"}

\* the pattern *.pb.go
MatchPbGo(name) == \E stem \in GoFileStems : name = stem \o ".pb.go"

\* filepath.Glob(srcDir + "/*.pb.go") over the output tree
Glob(tree, srcDir) ==
    LET hit(name) == MatchPbGo(name) /\ Join(srcDir, <<name>>) \in DOMAIN tree
        names == SelectSeq(GoFileNames, hit)
    IN [i \in 1..Len(names) |-> Join(srcDir, <<names[i]>>)]

\* languageProtoRule.getSrcAndDest: [err, pairs]
getSrcAndDest(r, workspaceRoot, bazelBin, protoPath, tree) ==
    LET protoRelpath == TrimPrefixPath(protoPath, workspaceRoot) IN
    IF r.kind = goProtoLibrary THEN
        LET wsRelpath == StripRepo(r.importPath) IN
        IF wsRelpath = r.importPath
        THEN [err |-> "no-workspace-relative-path", pairs |-> <<>>]
        ELSE LET srcDir == Join(Join(Join(bazelBin, Dir(protoRelpath)),
                                     <<r.name \o "_">>), r.importPath)
                 srcs == Glob(tree, srcDir)
             IN [err |-> "",
                 pairs |-> [i \in 1..Len(srcs) |->
                              [src |-> srcs[i],
                               dest |-> Join(Join(workspaceRoot, wsRelpath),
                                             <<Base(srcs[i])>>)]]]
    ELSE IF r.kind = tsProtoLibrary THEN
        [err |-> "",
         pairs |-> << [src |-> Join(Join(bazelBin, Dir(protoRelpath)),
                                    <<r.name \o ".d.ts">>),
                       dest |-> Join(Join(workspaceRoot, Dir(protoRelpath)),
                                     <<r.name \o ".d.ts">>)] >>]
    ELSE [err |-> "unknown-kind", pairs |-> <<>>]

\* ------------------------------------------------------------ environment

\* A workspace root with a marker file, and a directory without one.
WsRoot == <<"ws">>

BadRoot == <<"bad">>

Roots == {WsRoot, BadRoot}

\* flag.Args(): the lists of roots main can be given.
DirLists == UNION {[1..n -> Roots] : n \in 1..MaxDirs}

\* Mutant: the marker check passes for every directory.
foundWorkspaceFileAlways(root) == TRUE

\* copyGeneratedProtos' marker loop: one of WORKSPACE, WORKSPACE.bazel,
\* MODULE.bazel exists under the root.
foundWorkspaceFile(root) == root = WsRoot

\* What `bazel info` reports as bazel-bin.
BazelBinValue == <<"out", "bin">>

\* The lines git ls-files can report, in its order.
ProtoOrder == << <<"pkg", "a.proto">>, <<"pkg", "b.proto">>, <<"zz", "c.proto">> >>

Min(a, b) == IF a < b THEN a ELSE b

Listings == {SubSeq(ProtoOrder, 1, n) : n \in 0..Min(MaxProtos, Len(ProtoOrder))}

ImportR == <<"github.com", "o", "r", "gen">>

ImportQ == <<"github.com", "o", "q", "gen">>

ImportBad == <<"example.com", "gen">>

\* The BUILD files ws/pkg/BUILD is drawn from.
PkgBuilds ==
    { BuildAbsent,
      BuildMalformed,
      BuildOk(<< PL("foo", <<"a.proto", "b.proto">>), TsRule("foo_ts", ":foo") >>),
      BuildOk(<< PL("foo", <<"a.proto">>), PL("bar", <<"b.proto">>),
                 GoRule("foo_go", ":foo", ImportR),
                 GoRule("bar_go", ":bar", ImportQ) >>),
      BuildOk(<< PL("foo", <<":a.proto">>), TsRule("x_ts", "//other:foo") >>),
      BuildOk(<< PL("foo", <<"a.proto">>), GoRule("bad_go", ":foo", ImportBad),
                 TsRule("foo_ts", ":foo"), TsRule("bar_ts", ":foo") >>) }

PkgBuildPath == <<"ws", "pkg", "BUILD">>

BuildPaths == {<<"BUILD">>, PkgBuildPath, <<"ws", "zz", "BUILD">>}

\* The content of the BUILD file at path p given the one drawn for ws/pkg.
BuildsWith(pkg) == [p \in BuildPaths |-> IF p = PkgBuildPath THEN pkg ELSE BuildAbsent]

\* Contents an existing artifact can have; "" is the empty file.
ArtifactContents == {"", "A", "B"}

\* Contents a destination can have before the first run.
DestContents == {"A"}

\* A file tree: a function from the paths of its files to their contents.
Trees(paths, contents) ==
    UNION {[s -> contents] : s \in SUBSET paths}

\* The pairs the generation rules of a BUILD file name for the listed protos
\* when every Go file of GoFileNames has been generated: the rules are taken
\* as written, same-file reference or not.
CandidatePairs(file, listing) ==
    UNION { UNION { LET r == file.rules[i]
                        lr == LangRule(r.kind, r.name, TrimColon(r.proto), r.importpath)
                        tree == [q \in {Join(Join(Join(Join(BazelBinValue,
                                             Dir(listing[k])), <<r.name \o "_">>),
                                             r.importpath), <<GoFileNames[n]>>)
                                        : n \in 1..Len(GoFileNames)} |-> "A"]
                        ps == getSrcAndDest(lr, WsRoot, BazelBinValue,
                                            Join(WsRoot, listing[k]), tree).pairs
                    IN IF r.kind \in {goProtoLibrary, tsProtoLibrary}
                       THEN {ps[j] : j \in 1..Len(ps)}
                       ELSE {}
                    : i \in 1..Len(file.rules) }
            : k \in 1..Len(listing) }

CandidateSrcs(file, listing) == {p.src : p \in CandidatePairs(file, listing)}

CandidateDests(file, listing) == {p.dest : p \in CandidatePairs(file, listing)}

\* ------------------------------------------------------------------ state

VARIABLES
    \* the environment of one invocation, fixed while it runs
    dirs,          \* main's dirs: the workspace roots given on the command line
    listing,       \* lines of git ls-files output, each a workspace-relative path
    lsFails,       \* the listing command exits non-zero
    hasGit,        \* <root>/.git exists
    builds,        \* BUILD path -> BUILD file on disk
    out,           \* the output tree: artifact path -> content
    \* the disk the program writes
    fs,            \* the source tree: destination path -> content
    binCache,      \* the persisted bazel-bin cache file (<<>>: absent or empty)
    \* main
    mainPc,        \* "loop", "run", "returned", "exit0", "exit1"
    dirsDone,      \* workspace roots main has finished
    curRoot,       \* workspaceRoot of the copyGeneratedProtos call in progress
    total,         \* main's total
    ret,           \* what copyGeneratedProtos returned
    fs0,           \* the source tree as the call in progress found it
    \* one copyGeneratedProtos call
    workers,       \* task -> its goroutine's position and locals
    result,        \* the shared result: created, upToDate
    egErr,         \* errgroup's err
    group,         \* singleflight: key -> task running the call in flight
    calls,         \* singleflight: finished calls, task that ran it -> result
    cache,         \* buildFileParser.cache
    mu,            \* buildFileParser.mu: tasks holding it for reading, for writing
    parseCount,    \* path -> executions of parseBuildFile in this call
    cacheWrites,   \* path -> writes of p.cache[path] in this call
    computeCount,  \* executions of `bazel info` in this call
    writes,        \* os.WriteFile calls on destinations that succeeded in this call
    \* the parser specification
    bf,            \* the BUILD file handed to parseBuildFile
    parsed,        \* what parseBuildFile returned
    \* the locator specification
    locIn,         \* the receiver and arguments handed to getSrcAndDest
    locOut         \* what getSrcAndDest returned

envVars == <<dirs, listing, lsFails, hasGit, builds, out>>

mainVars == <<mainPc, dirsDone, curRoot, total, ret, fs0>>

parserVars == <<group, calls, cache, mu, parseCount, cacheWrites>>

pureVars == <<bf, parsed, locIn, locOut>>

vars == <<dirs, listing, lsFails, hasGit, builds, out, fs, binCache, mainPc,
          dirsDone, curRoot, total, ret, fs0, workers, result, egErr, group, calls,
          cache, mu, parseCount, cacheWrites, computeCount, writes, bf, parsed, locIn,
          locOut>>

\* ------------------------------------------------------------------ values

NoErr == [kind |-> "", at |-> <<>>]

Err(kind, at) == [kind |-> kind, at |-> at]

\* Mutant: no error is recognised as not-found.
IsNotExistNever(kind) == FALSE

\* os.IsNotExist
IsNotExist(kind) == kind = "notexist"

ZeroResult == [created |-> 0, upToDate |-> 0]

NoRet == [err |-> NoErr, ok |-> FALSE, result |-> ZeroResult]

\* *Result[*parsedBuildFile]; id names the parseBuildFile execution that
\* allocated it (the pointer's identity).
NoRes == [id |-> <<>>, err |-> "", val |-> NoBuildFile]

\* A task's goroutine: pc is its position, proto and path the closure's proto
\* and buildFilePath, call the singleflight call it waits for, res the value
\* fn computed, got what Parse returned to it, rules the generation rules not
\* yet expanded, pairs the pairs of the current rule not yet finished, sb the
\* artifact bytes read for the current pair, err what the task returned.
NewWorker(proto) ==
    [pc |-> "start", proto |-> proto, path |-> Join(Dir(proto), <<"BUILD">>),
     call |-> 0, res |-> NoRes, got |-> [id |-> <<>>, err |-> ""],
     rules |-> <<>>, pairs |-> <<>>, bazelBin |-> <<>>, sb |-> "", err |-> NoErr]

\* The task returns e.
Done(w, e) ==
    [w EXCEPT !.pc = "done", !.call = 0, !.res = NoRes, !.rules = <<>>,
              !.pairs = <<>>, !.bazelBin = <<>>, !.sb = "", !.err = e]

Count(m, k) == IF k \in DOMAIN m THEN m[k] ELSE 0

TreeGet(tree, p) == IF p \in DOMAIN tree THEN tree[p] ELSE ""

\* ------------------------------------------------------------------- init

InitEnv ==
    /\ dirs \in DirLists
    /\ lsFails \in BOOLEAN
    /\ hasGit \in BOOLEAN
    /\ lsFails \/ hasGit
    /\ listing \in Listings
    /\ lsFails => listing = <<>>
    /\ \E pkg \in (IF lsFails THEN {BuildAbsent} ELSE PkgBuilds) :
          /\ builds = BuildsWith(pkg)
          /\ out \in Trees(CandidateSrcs(pkg, listing), ArtifactContents)
          /\ fs \in Trees(CandidateDests(pkg, listing), DestContents)
    /\ binCache = <<>>

\* sync.RWMutex with no holder.
Unlocked == [readers |-> {}, writers |-> {}]

InitRun ==
    /\ workers = <<>>
    /\ result = ZeroResult
    /\ egErr = NoErr
    /\ group = <<>>
    /\ calls = <<>>
    /\ cache = <<>>
    /\ mu = Unlocked
    /\ parseCount = <<>>
    /\ cacheWrites = <<>>
    /\ computeCount = 0
    /\ writes = 0

NotParsed == [err |-> "unparsed", val |-> NoBuildFile]

\* No call of getSrcAndDest: its arguments and its result.
NoLoc == [r |-> LangRule("", "", "", <<>>), protoPath |-> <<>>, tree |-> <<>>]

NotLocated == [err |-> "uncalled", pairs |-> <<>>]

Init ==
    /\ InitEnv
    /\ InitRun
    /\ mainPc = "loop"
    /\ dirsDone = 0
    /\ curRoot = <<>>
    /\ total = ZeroResult
    /\ ret = NoRet
    /\ fs0 = fs
    /\ bf = BuildAbsent
    /\ parsed = NotParsed
    /\ locIn = NoLoc
    /\ locOut = NotLocated

\* ----------------------------------------------------------------- helpers

\* Mutant: a task's error is not recorded.
errDropped(cur, e) == cur

\* Mutant: a later error replaces the first.
errLast(cur, e) == e

\* errgroup's errOnce.Do: the first error a task returns is kept.
errOnce(cur, e) == IF cur = NoErr THEN e ELSE cur

\* The task's goroutine takes one step to the record nw; a task that returns
\* an error hands it to the errgroup.
SetWorker(w, nw) ==
    /\ workers' = [workers EXCEPT ![w] = nw]
    /\ egErr' = IF nw.pc = "done" /\ nw.err # NoErr
                THEN errOnce(egErr, nw.err) ELSE egErr

RECURSIVE NextPairs(_, _, _, _)
\* The loop over rules in syncProto up to the first rule with a pair: the
\* rules left after it, its pairs, and the error its pair loop would return.
\* A rule whose srcAndDestPaths is empty runs no iteration of the inner loop,
\* whatever its err.
NextPairs(rules, root, bazelBin, proto) ==
    IF rules = <<>> THEN [rules |-> <<>>, pairs |-> <<>>, err |-> ""]
    ELSE LET g == getSrcAndDest(Head(rules), root, bazelBin, proto, out) IN
         IF g.pairs = <<>> THEN NextPairs(Tail(rules), root, bazelBin, proto)
         ELSE [rules |-> Tail(rules), pairs |-> g.pairs, err |-> g.err]

\* syncProto's loops move on to the next pair, or return.
Advance(w) ==
    IF w.pairs # <<>> THEN [w EXCEPT !.pc = "readsrc", !.sb = ""]
    ELSE LET n == NextPairs(w.rules, curRoot, w.bazelBin, w.proto) IN
         IF n.pairs = <<>> THEN Done(w, NoErr)
         ELSE IF n.err # "" THEN Done(w, Err(n.err, w.proto))
         ELSE [w EXCEPT !.pc = "readsrc", !.sb = "", !.rules = n.rules,
                        !.pairs = n.pairs]

\* Mutant: the pair loop returns instead of continuing.
NextPairReturn(w) == Done(w, NoErr)

\* The end of the current pair's iteration (continue).
NextPair(w) == Advance([w EXCEPT !.pairs = Tail(w.pairs)])

\* Parse returned res to the task: the rest of the errgroup closure up to
\* syncProto's call of getBazelBinDir.
AfterParse(w, res) ==
    LET g == [w EXCEPT !.got = [id |-> res.id, err |-> res.err],
                       !.res = NoRes, !.call = 0] IN
    IF res.err # "" THEN
        IF IsNotExist(res.err) THEN Done(g, NoErr)
        ELSE Done(g, Err(res.err, w.path))
    ELSE LET l == getLangProtoRulesForProto(res.val, w.proto) IN
         IF ~l.ok THEN Done(g, NoErr)
         ELSE [g EXCEPT !.pc = "binget", !.rules = l.rules]

\* Mutant: calls in flight are not joined.
inFlightNever(g, key) == FALSE

\* singleflight: a call for the key is in flight.
inFlight(g, key) == key \in DOMAIN g

\* Mutant: the cache is never hit.
cacheLookupMiss(c, path) == [hit |-> FALSE, res |-> NoRes]

\* buildFileParser.Parse's read of p.cache[path] under RLock: [hit, res]
cacheLookup(c, path) ==
    IF path \in DOMAIN c THEN [hit |-> TRUE, res |-> c[path]]
    ELSE [hit |-> FALSE, res |-> NoRes]

\* ---------------------------------------------------- buildFileParser.Parse

\* p.group.Do(path, fn): join the call in flight, or register a new one.
DoEnter(w) ==
    /\ mainPc = "run"
    /\ workers[w].pc = "start"
    /\ LET path == workers[w].path IN
       IF inFlight(group, path)
       THEN /\ SetWorker(w, [workers[w] EXCEPT !.pc = "wait", !.call = group[path]])
            /\ UNCHANGED group
       ELSE /\ SetWorker(w, [workers[w] EXCEPT !.pc = "fn"])
            /\ group' = MapPut(group, path, w)
    /\ UNCHANGED <<envVars, fs, binCache, mainVars, result, calls, cache, mu,
                   parseCount, cacheWrites, computeCount, writes, pureVars>>

\* Mutant: the read lock is never released.
rUnlockForgotten(m, w) == m

\* RWMutex.RUnlock by task w
rUnlock(m, w) == [m EXCEPT !.readers = @ \ {w}]

\* RWMutex.RLock returns: no task holds the mutex for writing.
canRLock(m) == m.writers = {}

\* RWMutex.Lock returns: no task holds the mutex.
canLock(m) == m.readers = {} /\ m.writers = {}

\* fn: p.mu.RLock()
RLock(w) ==
    /\ mainPc = "run"
    /\ workers[w].pc = "fn"
    /\ canRLock(mu)
    /\ mu' = [mu EXCEPT !.readers = @ \cup {w}]
    /\ SetWorker(w, [workers[w] EXCEPT !.pc = "rlocked"])
    /\ UNCHANGED <<envVars, fs, binCache, mainVars, result, group, calls, cache,
                   parseCount, cacheWrites, computeCount, writes, pureVars>>

\* fn: the cache is consulted and p.mu.RUnlock() called; a hit is fn's result.
CacheRead(w) ==
    /\ mainPc = "run"
    /\ workers[w].pc = "rlocked"
    /\ mu' = rUnlock(mu, w)
    /\ LET c == cacheLookup(cache, workers[w].path) IN
       IF c.hit
       THEN SetWorker(w, [workers[w] EXCEPT !.pc = "fdone", !.res = c.res])
       ELSE SetWorker(w, [workers[w] EXCEPT !.pc = "parse"])
    /\ UNCHANGED <<envVars, fs, binCache, mainVars, result, group, calls, cache,
                   parseCount, cacheWrites, computeCount, writes, pureVars>>

\* fn: parseBuildFile(path)
ParseFile(w) ==
    /\ mainPc = "run"
    /\ workers[w].pc = "parse"
    /\ LET path == workers[w].path
           n == Count(parseCount, path) + 1
           r == parseBuildFile(builds[path])
       IN /\ parseCount' = MapPut(parseCount, path, n)
          /\ SetWorker(w, [workers[w] EXCEPT
                             !.pc = "cachew",
                             !.res = [id |-> <<path, n>>, err |-> r.err,
                                      val |-> r.val]])
    /\ UNCHANGED <<envVars, fs, binCache, mainVars, result, group, calls, cache,
                   mu, cacheWrites, computeCount, writes, pureVars>>

\* fn's deferred function: p.mu.Lock()
Lock(w) ==
    /\ mainPc = "run"
    /\ workers[w].pc = "cachew"
    /\ canLock(mu)
    /\ mu' = [mu EXCEPT !.writers = @ \cup {w}]
    /\ SetWorker(w, [workers[w] EXCEPT !.pc = "wlocked"])
    /\ UNCHANGED <<envVars, fs, binCache, mainVars, result, group, calls, cache,
                   parseCount, cacheWrites, computeCount, writes, pureVars>>

\* fn's deferred function: the outcome is stored in p.cache and p.mu.Unlock()
\* called.
CacheWrite(w) ==
    /\ mainPc = "run"
    /\ workers[w].pc = "wlocked"
    /\ mu' = [mu EXCEPT !.writers = @ \ {w}]
    /\ cache' = MapPut(cache, workers[w].path, workers[w].res)
    /\ cacheWrites' = MapPut(cacheWrites, workers[w].path,
                             Count(cacheWrites, workers[w].path) + 1)
    /\ SetWorker(w, [workers[w] EXCEPT !.pc = "fdone"])
    /\ UNCHANGED <<envVars, fs, binCache, mainVars, result, group, calls,
                   parseCount, computeCount, writes, pureVars>>

\* singleflight's doCall after fn: the call is finished and its key removed;
\* Do returns fn's result to the task that ran it.
FlightDone(w) ==
    /\ mainPc = "run"
    /\ workers[w].pc = "fdone"
    /\ calls' = MapPut(calls, w, workers[w].res)
    /\ group' = [k \in {x \in DOMAIN group : group[x] # w} |-> group[k]]
    /\ SetWorker(w, AfterParse(workers[w], workers[w].res))
    /\ UNCHANGED <<envVars, fs, binCache, mainVars, result, cache, mu,
                   parseCount, cacheWrites, computeCount, writes, pureVars>>

\* A task that joined a call in flight: c.wg.Wait() returns once the call is
\* finished, and Do returns the call's result.
DoWake(w) ==
    /\ mainPc = "run"
    /\ workers[w].pc = "wait"
    /\ workers[w].call \in DOMAIN calls
    /\ SetWorker(w, AfterParse(workers[w], calls[workers[w].call]))
    /\ UNCHANGED <<envVars, fs, binCache, mainVars, result, parserVars,
                   computeCount, writes, pureVars>>

\* ---------------------------------------------------------- getBazelBinDir

\* cacheGet: a cached value is returned without running bazel.
BinCacheGet(w) ==
    /\ mainPc = "run"
    /\ workers[w].pc = "binget"
    /\ IF binCache # <<>>
       THEN SetWorker(w, Advance([workers[w] EXCEPT !.bazelBin = binCache]))
       ELSE SetWorker(w, [workers[w] EXCEPT !.pc = "bincompute"])
    /\ UNCHANGED <<envVars, fs, binCache, mainVars, result, parserVars,
                   computeCount, writes, pureVars>>

\* computeBazelBinDir: `bazel info` runs; it reports bazel-bin or fails.
BinCompute(w) ==
    /\ mainPc = "run"
    /\ workers[w].pc = "bincompute"
    /\ computeCount' = computeCount + 1
    /\ \/ SetWorker(w, [workers[w] EXCEPT !.pc = "binset", !.bazelBin = BazelBinValue])
       \/ SetWorker(w, Done(workers[w], Err("bazel-bin", curRoot)))
    /\ UNCHANGED <<envVars, fs, binCache, mainVars, result, parserVars, writes,
                   pureVars>>

\* cacheSet: the value is persisted (or the cache file cannot be written).
BinCacheSet(w) ==
    /\ mainPc = "run"
    /\ workers[w].pc = "binset"
    /\ \/ /\ binCache' = workers[w].bazelBin
          /\ SetWorker(w, Advance(workers[w]))
       \/ /\ UNCHANGED binCache
          /\ SetWorker(w, Done(workers[w], Err("bazel-bin", curRoot)))
    /\ UNCHANGED <<envVars, fs, mainVars, result, parserVars, computeCount,
                   writes, pureVars>>

\* ---------------------------------------------------------------- syncProto

\* The artifact and the destination syncProto writes for a pair.
writeFile(tree, dest, sb) == MapPut(tree, dest, sb)

\* Mutant: the comparison never finds the destination up to date.
sameContentNever(sourceContent, destContent) == FALSE

\* sourceContent == destContent
sameContent(sourceContent, destContent) == sourceContent = destContent

\* Mutant: an empty artifact is copied like any other.
isEmptyNever(sourceContent) == FALSE

\* sourceContent == ""
isEmpty(sourceContent) == sourceContent = ""

\* os.ReadFile(src) and the empty-artifact check.
ReadSrc(w) ==
    /\ mainPc = "run"
    /\ workers[w].pc = "readsrc"
    /\ LET src == Head(workers[w].pairs).src IN
       \/ /\ src \notin DOMAIN out
          /\ SetWorker(w, NextPair(workers[w]))
       \/ /\ src \in DOMAIN out
          /\ isEmpty(out[src])
          /\ SetWorker(w, Done(workers[w], Err("empty", workers[w].proto)))
       \/ /\ src \in DOMAIN out
          /\ ~isEmpty(out[src])
          /\ SetWorker(w, [workers[w] EXCEPT !.pc = "readdest", !.sb = out[src]])
       \/ /\ src \in DOMAIN out
          /\ SetWorker(w, Done(workers[w], Err("io", src)))
    /\ UNCHANGED <<envVars, fs, binCache, mainVars, result, parserVars,
                   computeCount, writes, pureVars>>

\* os.ReadFile(dest) (an absent destination reads as "") and the comparison.
ReadDest(w) ==
    /\ mainPc = "run"
    /\ workers[w].pc = "readdest"
    /\ LET dest == Head(workers[w].pairs).dest IN
       \/ IF sameContent(workers[w].sb, TreeGet(fs, dest))
          THEN SetWorker(w, [workers[w] EXCEPT !.pc = "incup"])
          ELSE SetWorker(w, [workers[w] EXCEPT !.pc = "write"])
       \/ /\ dest \in DOMAIN fs
          /\ SetWorker(w, Done(workers[w], Err("io", dest)))
    /\ UNCHANGED <<envVars, fs, binCache, mainVars, result, parserVars,
                   computeCount, writes, pureVars>>

\* Mutant: an increment that is lost.
AddInt64Lost(v, delta) == v

\* atomic.AddInt64: the read, the addition and the store are one step.
AddInt64(v, delta) == v + delta

\* atomic.AddInt64(&result.upToDate, 1); continue
IncUpToDate(w) ==
    /\ mainPc = "run"
    /\ workers[w].pc = "incup"
    /\ result' = [result EXCEPT !.upToDate = AddInt64(@, 1)]
    /\ SetWorker(w, NextPair(workers[w]))
    /\ UNCHANGED <<envVars, fs, binCache, mainVars, parserVars, computeCount,
                   writes, pureVars>>

\* os.MkdirAll and os.WriteFile(dest, sb), or the failure of either.
WriteDest(w) ==
    /\ mainPc = "run"
    /\ workers[w].pc = "write"
    /\ LET dest == Head(workers[w].pairs).dest IN
       \/ /\ fs' = writeFile(fs, dest, workers[w].sb)
          /\ writes' = writes + 1
          /\ SetWorker(w, [workers[w] EXCEPT !.pc = "inccreated"])
       \/ /\ UNCHANGED <<fs, writes>>
          /\ SetWorker(w, Done(workers[w], Err("io", dest)))
    /\ UNCHANGED <<envVars, binCache, mainVars, result, parserVars,
                   computeCount, pureVars>>

\* atomic.AddInt64(&result.created, 1)
IncCreated(w) ==
    /\ mainPc = "run"
    /\ workers[w].pc = "inccreated"
    /\ result' = [result EXCEPT !.created = AddInt64(@, 1)]
    /\ SetWorker(w, NextPair(workers[w]))
    /\ UNCHANGED <<envVars, fs, binCache, mainVars, parserVars, computeCount,
                   writes, pureVars>>

\* ------------------------------------------------------ copyGeneratedProtos

\* strings.Split(buf.String(), "\n") of the listing's output, each line
\* joined to the root: the output ends with a newline (or is empty), so the
\* last element is the empty string.
protosOf(root, lines) ==
    [i \in 1..(Len(lines) + 1) |->
        IF i <= Len(lines) THEN Join(root, lines[i]) ELSE Join(root, <<>>)]

\* Mutant: a failed listing is always taken for "not a git repository".
lsFilesFailedIgnored(root, git) ==
    [err |-> NoErr, ok |-> TRUE, result |-> ZeroResult]

\* What copyGeneratedProtos returns when lsFiles.Run() fails: nothing to do
\* when <root>/.git does not exist, an error when it does.
lsFilesFailed(root, git) ==
    IF ~git
    THEN [err |-> NoErr, ok |-> TRUE, result |-> ZeroResult]
    ELSE [err |-> Err("ls-files", root), ok |-> FALSE, result |-> ZeroResult]

\* copyGeneratedProtos up to the end of the loop that starts the tasks.
copyGeneratedProtosStart(root) ==
    /\ mainPc = "loop"
    /\ dirsDone < Len(dirs)
    /\ root = dirs[dirsDone + 1]
    /\ curRoot' = root
    /\ fs0' = fs
    /\ result' = ZeroResult
    /\ egErr' = NoErr
    /\ group' = <<>>
    /\ calls' = <<>>
    /\ cache' = <<>>
    /\ mu' = Unlocked
    /\ parseCount' = <<>>
    /\ cacheWrites' = <<>>
    /\ computeCount' = 0
    /\ writes' = 0
    /\ IF ~foundWorkspaceFile(root)
       THEN /\ ret' = [err |-> Err("not-a-workspace", root), ok |-> FALSE,
                       result |-> ZeroResult]
            /\ mainPc' = "returned"
            /\ workers' = <<>>
       ELSE IF lsFails
       THEN /\ ret' = lsFilesFailed(root, hasGit)
            /\ mainPc' = "returned"
            /\ workers' = <<>>
       ELSE /\ ret' = NoRet
            /\ mainPc' = "run"
            /\ workers' = LET protos == protosOf(root, listing) IN
                          [i \in 1..Len(protos) |-> NewWorker(protos[i])]
    /\ UNCHANGED <<envVars, fs, binCache, dirsDone, total, pureVars>>

\* eg.Wait() and the return: every task has returned.
Wait ==
    /\ mainPc = "run"
    /\ \A w \in DOMAIN workers : workers[w].pc = "done"
    /\ ret' = IF egErr # NoErr
              THEN [err |-> egErr, ok |-> FALSE, result |-> ZeroResult]
              ELSE [err |-> NoErr, ok |-> TRUE, result |-> result]
    /\ mainPc' = "returned"
    /\ UNCHANGED <<envVars, fs, binCache, dirsDone, curRoot, total, fs0, workers,
                   result, egErr, parserVars, computeCount, writes, pureVars>>

\* ---------------------------------------------------------------------- main

\* main's loop body after copyGeneratedProtos returned: fatalf exits the
\* process, otherwise the counts are added to the total.
MainHandle ==
    /\ mainPc = "returned"
    /\ IF ret.err # NoErr
       THEN /\ mainPc' = "exit1"
            /\ UNCHANGED <<dirsDone, total>>
       ELSE /\ mainPc' = "loop"
            /\ dirsDone' = dirsDone + 1
            /\ total' = [created |-> total.created + ret.result.created,
                         upToDate |-> total.upToDate + ret.result.upToDate]
    /\ UNCHANGED <<envVars, fs, binCache, curRoot, ret, fs0, workers, result,
                   egErr, parserVars, computeCount, writes, pureVars>>

\* The loop over dirs is over: the summary is printed and main returns.
MainFinish ==
    /\ mainPc = "loop"
    /\ dirsDone = Len(dirs)
    /\ mainPc' = "exit0"
    /\ UNCHANGED <<envVars, fs, binCache, dirsDone, curRoot, total, ret, fs0,
                   workers, result, egErr, parserVars, computeCount, writes,
                   pureVars>>

Next ==
    \/ \E root \in Roots : copyGeneratedProtosStart(root)
    \/ \E w \in DOMAIN workers : DoEnter(w)
    \/ \E w \in DOMAIN workers : RLock(w)
    \/ \E w \in DOMAIN workers : CacheRead(w)
    \/ \E w \in DOMAIN workers : ParseFile(w)
    \/ \E w \in DOMAIN workers : Lock(w)
    \/ \E w \in DOMAIN workers : CacheWrite(w)
    \/ \E w \in DOMAIN workers : FlightDone(w)
    \/ \E w \in DOMAIN workers : DoWake(w)
    \/ \E w \in DOMAIN workers : BinCacheGet(w)
    \/ \E w \in DOMAIN workers : BinCompute(w)
    \/ \E w \in DOMAIN workers : BinCacheSet(w)
    \/ \E w \in DOMAIN workers : ReadSrc(w)
    \/ \E w \in DOMAIN workers : ReadDest(w)
    \/ \E w \in DOMAIN workers : IncUpToDate(w)
    \/ \E w \in DOMAIN workers : WriteDest(w)
    \/ \E w \in DOMAIN workers : IncCreated(w)
    \/ Wait
    \/ MainHandle
    \/ MainFinish

Spec == Init /\ [][Next]_vars

\* ------------------------------------------ the parser on drawn BUILD files

\* The call expressions BUILD files are drawn from: proto_library rules with
\* literal and non-literal (Name() = "") names, shared and disjoint srcs, a
\* rule without srcs; generation rules with same-file and cross-file proto
\* references, with and without their required attributes; another kind.
RuleUniverse ==
    { PL("foo", <<"a.proto">>),
      PL("bar", <<":a.proto", "b.proto">>),
      PL("bar", <<"b.proto">>),
      PL("", <<"a.proto">>),
      MkRule(protoLibrary, "foo", FALSE, <<>>, "", <<>>),
      GoRule("foo_go", ":foo", ImportR),
      GoRule("bad_go", ":bar", <<>>),
      GoRule("x_go", "//other:foo", <<>>),
      TsRule("foo_ts", ":foo"),
      TsRule("x_ts", "//other:bar"),
      TsRule("np_ts", ""),
      MkRule("go_library", "lib", FALSE, <<>>, "", <<>>) }

RuleSeqs == UNION {[1..n -> RuleUniverse] : n \in 0..MaxRules}

InitBuild ==
    /\ bf \in {BuildOk(rs) : rs \in RuleSeqs}
    /\ parsed = NotParsed
    /\ locIn = NoLoc
    /\ locOut = NotLocated
    /\ dirs = <<>>
    /\ fs0 = <<>>
    /\ listing = <<>>
    /\ lsFails = FALSE
    /\ hasGit = FALSE
    /\ builds = <<>>
    /\ out = <<>>
    /\ fs = <<>>
    /\ binCache = <<>>
    /\ InitRun
    /\ mainPc = "parser"
    /\ dirsDone = 0
    /\ curRoot = <<>>
    /\ total = ZeroResult
    /\ ret = NoRet

\* parseBuildFile is applied to the drawn file.
ParseStep ==
    /\ mainPc = "parser"
    /\ parsed = NotParsed
    /\ parsed' = parseBuildFile(bf)
    /\ UNCHANGED <<envVars, fs, binCache, mainVars, workers, result, egErr,
                   parserVars, computeCount, writes, bf, locIn, locOut>>

NextBuild == ParseStep

SpecBuild == InitBuild /\ [][NextBuild]_vars

\* ------------------------------------------------- the parser under fairness

\* The tasks a call can start: one per line of the listing and one more.
TaskIds == 1..(MaxProtos + 1)

\* One invocation on a workspace whose listing succeeds and names MaxProtos
\* protos: the tasks ask the parser for ws/pkg/BUILD and for one other path.
InitLive ==
    /\ dirs = <<WsRoot>>
    /\ lsFails = FALSE
    /\ hasGit = TRUE
    /\ listing = SubSeq(ProtoOrder, 1, Min(MaxProtos, Len(ProtoOrder)))
    /\ \E pkg \in PkgBuilds :
          /\ builds = BuildsWith(pkg)
          /\ out \in Trees(CandidateSrcs(pkg, listing), {"A"})
          /\ fs \in Trees(CandidateDests(pkg, listing), DestContents)
    /\ binCache = <<>>
    /\ InitRun
    /\ mainPc = "loop"
    /\ dirsDone = 0
    /\ curRoot = <<>>
    /\ total = ZeroResult
    /\ ret = NoRet
    /\ fs0 = fs
    /\ bf = BuildAbsent
    /\ parsed = NotParsed
    /\ locIn = NoLoc
    /\ locOut = NotLocated

\* A step of task w inside buildFileParser.Parse.
ParseStepOf(w) ==
    /\ w \in DOMAIN workers
    /\ \/ DoEnter(w)
       \/ RLock(w)
       \/ CacheRead(w)
       \/ ParseFile(w)
       \/ Lock(w)
       \/ CacheWrite(w)
       \/ FlightDone(w)
       \/ DoWake(w)

\* The scheduler runs every goroutine that can run, parseBuildFile
\* terminates, and a mutex that stays free is acquired.
Fairness == \A w \in TaskIds : WF_vars(ParseStepOf(w))

SpecLive == InitLive /\ [][Next]_vars /\ Fairness

\* ------------------------------------- the locator on drawn generation rules

\* Import paths of go_proto_library rules: with the hosting prefix and one or
\* two further segments, with the prefix and nothing after the repository,
\* on other hosts, with the prefix not at the start, and with another
\* character where github.com has its dot.
ImportPaths ==
    { <<"github.com", "org", "repo", "pkg", "sub">>,
      ImportR,
      <<"github.com", "org", "repo">>,
      ImportBad,
      <<"gitlab.com", "org", "repo", "pkg">>,
      <<"x", "github.com", "org", "repo", "pkg">>,
      <<"githubxcom", "org", "repo", "pkg">>,
      <<"pkg", "sub">> }

\* The generation rules parseBuildFile can index: the two kinds of
\* langProtoRuleKinds, a go_proto_library with its importpath.
LocRules ==
    {LangRule(goProtoLibrary, n, "foo", ip) : n \in {"foo_go", "bar_go"}, ip \in ImportPaths}
    \cup {LangRule(tsProtoLibrary, n, "foo", <<>>) : n \in {"foo_ts", "bar_ts"}}

\* Protos in a package directory and directly under the root.
LocProtos == {<<"ws", "pkg", "a.proto">>, <<"ws", "a.proto">>}

\* Where bazel puts the artifacts of rule r for the proto.
LocArtifacts(r, protoPath) ==
    LET d == Join(BazelBinValue, Dir(TrimPrefixPath(protoPath, WsRoot))) IN
    IF r.kind = goProtoLibrary
    THEN {Join(Join(Join(d, <<r.name \o "_">>), r.importPath), <<GoFileNames[n]>>)
             : n \in 1..Len(GoFileNames)}
    ELSE {Join(d, <<r.name \o ".d.ts">>)}

InitLocator ==
    /\ \E r \in LocRules, protoPath \in LocProtos :
          \E tree \in Trees(LocArtifacts(r, protoPath), {"A"}) :
             locIn = [r |-> r, protoPath |-> protoPath, tree |-> tree]
    /\ locOut = NotLocated
    /\ bf = BuildAbsent
    /\ parsed = NotParsed
    /\ dirs = <<>>
    /\ fs0 = <<>>
    /\ listing = <<>>
    /\ lsFails = FALSE
    /\ hasGit = FALSE
    /\ builds = <<>>
    /\ out = <<>>
    /\ fs = <<>>
    /\ binCache = <<>>
    /\ InitRun
    /\ mainPc = "locator"
    /\ dirsDone = 0
    /\ curRoot = <<>>
    /\ total = ZeroResult
    /\ ret = NoRet

\* getSrcAndDest is applied to the drawn rule.
LocateStep ==
    /\ mainPc = "locator"
    /\ locOut = NotLocated
    /\ locOut' = getSrcAndDest(locIn.r, WsRoot, BazelBinValue, locIn.protoPath,
                               locIn.tree)
    /\ UNCHANGED <<envVars, fs, binCache, mainVars, workers, result, egErr,
                   parserVars, computeCount, writes, bf, parsed, locIn>>

NextLocator == LocateStep

SpecLocator == InitLocator /\ [][NextLocator]_vars

\* ------------------------------------------------------------------ claims

\* Parse has returned to task w.
Returned(w) == workers[w].got.id # <<>>

\* C1: for any number of concurrent Parse calls for one path on one parser,
\* parseBuildFile executes exactly once for the path and every caller
\* receives the identical outcome: the RuleFile or the failure of that one
\* execution.
C1_Deduplicated ==
    /\ \A p \in DOMAIN parseCount : parseCount[p] <= 1
    /\ \A w \in DOMAIN workers :
          Returned(w) =>
             /\ Count(parseCount, workers[w].path) = 1
             /\ workers[w].got.id = <<workers[w].path, 1>>
             /\ workers[w].got.err = parseBuildFile(builds[workers[w].path]).err
    /\ \A w1, w2 \in DOMAIN workers :
          (Returned(w1) /\ Returned(w2) /\ workers[w1].path = workers[w2].path)
             => workers[w1].got = workers[w2].got

\* C1's case: two callers of one path have their outcome, one of them having
\* joined the other's call while it was in flight.
C1_Witness ==
    \E w1, w2 \in DOMAIN workers :
        /\ w1 # w2
        /\ workers[w1].path = workers[w2].path
        /\ Returned(w1)
        /\ Returned(w2)
        /\ w1 \notin DOMAIN calls
        /\ w2 \in DOMAIN calls

\* C2: for a path on one parser, over any interleaving of concurrent and
\* sequential Parse calls, parseBuildFile runs at most once; a call that
\* returns, returns the memoized outcome (success or failure); the cache
\* entry of a path is written at most once and never changes afterwards.
C2_Memoized ==
    /\ [](/\ \A p \in DOMAIN parseCount : parseCount[p] <= 1
          /\ \A p \in DOMAIN cacheWrites : cacheWrites[p] <= 1
          /\ \A p \in DOMAIN cache :
                Count(parseCount, p) = 1 /\ Count(cacheWrites, p) = 1
          /\ \A w \in DOMAIN workers :
                Returned(w) =>
                   /\ workers[w].path \in DOMAIN cache
                   /\ workers[w].got.id = cache[workers[w].path].id
                   /\ workers[w].got.err = cache[workers[w].path].err)
    /\ [][(mainPc = "run" /\ mainPc' = "run") =>
             \A p \in DOMAIN cache :
                /\ p \in DOMAIN cache'
                /\ cache'[p] = cache[p]
                /\ Count(parseCount', p) = Count(parseCount, p)
                /\ Count(cacheWrites', p) = Count(cacheWrites, p)]_vars

\* C2's case: two calls for one path ran one after the other (each ran its
\* own singleflight call), and the path was parsed once.
C2_Witness ==
    \E w1, w2 \in DOMAIN workers :
        /\ w1 # w2
        /\ workers[w1].path = workers[w2].path
        /\ Returned(w1)
        /\ Returned(w2)
        /\ w1 \in DOMAIN calls
        /\ w2 \in DOMAIN calls
        /\ Count(parseCount, workers[w1].path) = 1

\* C3: after a successful copyGeneratedProtos(workspaceRoot), a further run
\* over the unchanged output tree, rule files and listing performs no
\* destination write and counts nothing as written, whatever the rule
\* files (several rules or protos resolving to one destination included).
C3_Idempotent ==
    (dirsDone >= 1 /\ mainPc \in {"run", "returned"}) =>
        /\ writes = 0
        /\ result.created = 0
        /\ ret.result.created = 0

\* The pair task w is working on.
CurPair(w) == Head(workers[w].pairs)

\* Task w takes a step of the run in progress.
Steps(w) ==
    /\ mainPc = "run"
    /\ w \in DOMAIN workers'
    /\ workers'[w] # workers[w]

\* C4: for a pair whose artifact exists and is non-empty: when the
\* destination's bytes, as read, equal the artifact's, the destination is
\* not written and upToDate is incremented by one; otherwise (absent or
\* different) the destination is overwritten, holds the artifact's bytes,
\* and created is incremented by one.  (A read or write that fails ends the
\* task with that error instead.)
C4_ContentGate ==
    /\ [](\A w \in DOMAIN workers :
             workers[w].pc \in {"readdest", "incup", "write", "inccreated"} =>
                /\ CurPair(w).src \in DOMAIN out
                /\ workers[w].sb = out[CurPair(w).src]
                /\ workers[w].sb # "")
    /\ [][\A w \in DOMAIN workers :
             Steps(w) =>
                /\ (workers[w].pc = "readdest" /\ workers'[w].pc # "done") =>
                      /\ workers'[w].pc =
                            IF workers[w].sb = TreeGet(fs, CurPair(w).dest)
                            THEN "incup" ELSE "write"
                      /\ fs' = fs
                      /\ result' = result
                /\ workers[w].pc = "incup" =>
                      /\ fs' = fs
                      /\ result' = [result EXCEPT !.upToDate = @ + 1]
                /\ (workers[w].pc = "write" /\ workers'[w].pc # "done") =>
                      /\ workers'[w].pc = "inccreated"
                      /\ DOMAIN fs' = DOMAIN fs \cup {CurPair(w).dest}
                      /\ fs'[CurPair(w).dest] = workers[w].sb
                      /\ \A d \in DOMAIN fs : d # CurPair(w).dest => fs'[d] = fs[d]
                      /\ result' = result
                /\ workers[w].pc = "inccreated" =>
                      /\ fs' = fs
                      /\ result' = [result EXCEPT !.created = @ + 1]
                /\ workers[w].pc # "write" => fs' = fs]_vars

\* C4's case: in one run a destination that differed has been overwritten
\* with its artifact and another pair has been found up to date.
C4_Witness ==
    /\ result.upToDate >= 1
    /\ \E w \in DOMAIN workers :
          /\ workers[w].pc = "inccreated"
          /\ fs[CurPair(w).dest] = workers[w].sb

\* C5: when a task returns a hard error (rule-file parse error, empty
\* artifact, I/O failure, bazel-bin not resolved), copyGeneratedProtos
\* returns an error and no result; the step in which a task fails and the
\* return undo no destination write.
C5_HardErrorFailsRun ==
    /\ []((mainPc = "returned" /\ \E w \in DOMAIN workers : workers[w].err # NoErr)
             => (ret.err # NoErr /\ ~ret.ok /\ ret.result = ZeroResult))
    /\ [][/\ (\E w \in DOMAIN workers :
                 Steps(w) /\ workers'[w].pc = "done" /\ workers'[w].err # NoErr)
              => fs' = fs
          /\ (mainPc = "run" /\ mainPc' # "run") => fs' = fs
          /\ mainPc \in {"returned", "exit1"} => fs' = fs]_vars

\* C5's case: a run has failed on a task's hard error after another write of
\* the run was committed, and the written file is in place.
C5_Witness ==
    /\ mainPc = "exit1"
    /\ writes >= 1
    /\ \E w \in DOMAIN workers : workers[w].err # NoErr
    /\ \E w \in DOMAIN workers :
          /\ workers[w].err = NoErr
          /\ \E d \in DOMAIN fs : fs[d] = "B"

\* C6: copyGeneratedProtos starts one task per element of protos and
\* returns only when every task has returned; after that no destination is
\* written and no counter changes; the error returned is the first a task
\* reported, later ones are discarded.
C6_Barrier ==
    /\ [](/\ mainPc = "run" =>
                LET protos == protosOf(curRoot, listing) IN
                /\ DOMAIN workers = 1..Len(protos)
                /\ \A i \in DOMAIN workers : workers[i].proto = protos[i]
          /\ mainPc # "run" => \A w \in DOMAIN workers : workers[w].pc = "done"
          /\ (mainPc = "returned" /\ workers # <<>>) => ret.err = egErr)
    /\ [][/\ mainPc \in {"returned", "exit0", "exit1"} => (fs' = fs /\ result' = result)
          /\ mainPc = "loop" => fs' = fs
          /\ mainPc = "run" =>
                /\ egErr # NoErr => egErr' = egErr
                /\ \A w \in DOMAIN workers :
                      (Steps(w) /\ workers'[w].pc = "done" /\ workers'[w].err # NoErr
                          /\ egErr = NoErr)
                        => egErr' = workers'[w].err
                /\ (egErr = NoErr /\ egErr' # NoErr) =>
                      \E w \in DOMAIN workers :
                         Steps(w) /\ workers'[w].pc = "done" /\ workers'[w].err = egErr']_vars

\* C6's case: two tasks of a run failed with different errors and the run
\* has returned.
C6_Witness ==
    /\ mainPc = "returned"
    /\ \E w1, w2 \in DOMAIN workers :
          /\ workers[w1].err # NoErr
          /\ workers[w2].err # NoErr
          /\ workers[w1].err # workers[w2].err

\* C7: when an expected artifact exists with zero bytes, syncProto returns a
\* fatal error naming the source proto file (the read's own error when the
\* read fails), the run fails, and that step writes no destination and
\* increments no counter.
C7_EmptyArtifactFatal ==
    /\ []((mainPc = "returned" /\ \E w \in DOMAIN workers : workers[w].err.kind = "empty")
             => (ret.err # NoErr /\ ~ret.ok))
    /\ [][\A w \in DOMAIN workers :
             (/\ Steps(w)
              /\ workers[w].pc = "readsrc"
              /\ TreeGet(out, CurPair(w).src) = ""
              /\ CurPair(w).src \in DOMAIN out)
             => /\ workers'[w].pc = "done"
                /\ workers'[w].err \in {Err("empty", workers[w].proto),
                                        Err("io", CurPair(w).src)}
                /\ fs' = fs
                /\ result' = result]_vars

\* C7's case: a run has failed on an empty artifact.
C7_Witness ==
    /\ mainPc = "exit1"
    /\ ret.err.kind = "empty"
    /\ \E w \in DOMAIN workers : workers[w].err = Err("empty", workers[w].proto)

RECURSIVE PairsOfRules(_, _, _, _)
\* The pairs of the rules in order, as getSrcAndDest computes them.
PairsOfRules(rules, root, bazelBin, proto) ==
    IF rules = <<>> THEN <<>>
    ELSE getSrcAndDest(Head(rules), root, bazelBin, proto, out).pairs
         \o PairsOfRules(Tail(rules), root, bazelBin, proto)

\* The pairs task w has still to process after the current one.
RestPairs(w) ==
    Tail(workers[w].pairs)
    \o PairsOfRules(workers[w].rules, curRoot, workers[w].bazelBin, workers[w].proto)

\* Every pair of task w's proto, from the BUILD file on disk.
AllPairs(w) ==
    LET r == parseBuildFile(builds[workers[w].path])
        l == getLangProtoRulesForProto(r.val, workers[w].proto)
    IN PairsOfRules(l.rules, curRoot, BazelBinValue, workers[w].proto)

\* C8: when the artifact path of a pair does not exist, the pair is skipped:
\* no error, no counter change, no destination write, and the task goes on
\* with the next pair of the proto (of this rule or a later one), or returns
\* nil when there is none.
C8_MissingArtifactSkipped ==
    [][\A w \in DOMAIN workers :
          (/\ Steps(w)
           /\ workers[w].pc = "readsrc"
           /\ CurPair(w).src \notin DOMAIN out)
          => /\ fs' = fs
             /\ result' = result
             /\ egErr' = egErr
             /\ workers'[w].err = NoErr
             /\ IF RestPairs(w) = <<>>
                THEN workers'[w].pc = "done"
                ELSE /\ workers'[w].pc = "readsrc"
                     /\ Head(workers'[w].pairs) = Head(RestPairs(w))]_vars

\* C8's case: the first pair of a proto has no artifact, and its task has
\* gone on to write a later pair.
C8_Witness ==
    \E w \in DOMAIN workers :
        /\ workers[w].pc = "inccreated"
        /\ AllPairs(w) # <<>>
        /\ Head(AllPairs(w)).src \notin DOMAIN out
        /\ CurPair(w) # Head(AllPairs(w))
        /\ workers[w].err = NoErr
        /\ result = ZeroResult

\* The pairs of task w's proto whose artifact exists and is not empty.
CopiedPairs(w) ==
    {i \in DOMAIN AllPairs(w) :
        /\ AllPairs(w)[i].src \in DOMAIN out
        /\ out[AllPairs(w)[i].src] # ""}

RECURSIVE CopiedUpTo(_)
\* The number of such pairs over the tasks 1..n.
CopiedUpTo(n) ==
    IF n = 0 THEN 0 ELSE Cardinality(CopiedPairs(n)) + CopiedUpTo(n - 1)

\* C11: no increment of the shared counters is lost under any interleaving
\* of the tasks: at every moment created equals the destination writes made
\* less the ones whose task has yet to count them, and a successful run
\* returns created = the destination writes performed and created + upToDate
\* = the pairs processed whose artifact existed and was not empty.
C11_CountersExact ==
    /\ mainPc \in {"run", "returned"} =>
          result.created
             + Cardinality({w \in DOMAIN workers : workers[w].pc = "inccreated"})
          = writes
    /\ (mainPc = "returned" /\ ret.ok) =>
          /\ ret.result = result
          /\ ret.result.created = writes
          /\ ret.result.created + ret.result.upToDate = CopiedUpTo(Len(workers))

\* C11's case: a successful run in which two tasks each wrote a destination
\* and incremented the same counter.
C11_Witness ==
    /\ mainPc = "returned"
    /\ ret.ok
    /\ ret.result.created >= 2
    /\ writes >= 2
    /\ \E w1, w2 \in DOMAIN workers :
          w1 # w2 /\ CopiedPairs(w1) # {} /\ CopiedPairs(w2) # {}

\* C12: within one run over one workspace root `bazel info` is executed at
\* most once, however many protos and concurrent tasks need the output
\* directory, a run that starts with nothing cached included.
C12_QueryOnce == computeCount <= 1

\* C13: for a workspaceRoot that holds none of the marker files (BadRoot),
\* copyGeneratedProtos returns an error, never an empty success, and returns
\* it before it lists protos, starts a task, parses a rule file, resolves
\* the output directory or writes a file.
C13_WorkspaceValidated ==
    /\ [](mainPc = "run" => curRoot # BadRoot)
    /\ []((mainPc \in {"returned", "exit1"} /\ curRoot = BadRoot) =>
             /\ ret = [err |-> Err("not-a-workspace", BadRoot), ok |-> FALSE,
                       result |-> ZeroResult]
             /\ workers = <<>>
             /\ parseCount = <<>>
             /\ computeCount = 0
             /\ writes = 0
             /\ fs = fs0)
    /\ [][(/\ mainPc = "loop"
           /\ mainPc' # "loop"
           /\ dirsDone < Len(dirs)
           /\ dirs[dirsDone + 1] = BadRoot) =>
             /\ mainPc' = "returned"
             /\ curRoot' = BadRoot
             /\ fs' = fs
             /\ binCache' = binCache]_vars

\* C13's case: main has exited on a root without marker file although the
\* listing names protos, and no task was started for them.
C13_Witness ==
    /\ mainPc = "exit1"
    /\ curRoot = BadRoot
    /\ ~lsFails
    /\ Len(listing) >= 1
    /\ workers = <<>>

\* C14: a proto whose directory has no file named BUILD is skipped: its task
\* returns nil, and the step in which it learns of the missing file changes
\* no counter and writes nothing; the same for the caller whose call read
\* the file, a caller that joined that call and a caller served from the
\* cache.
C14_NoBuildSkipped ==
    /\ [](\A w \in DOMAIN workers :
             (Returned(w) /\ builds[workers[w].path] = BuildAbsent) =>
                /\ workers[w].got.err = "notexist"
                /\ workers[w].pc = "done"
                /\ workers[w].err = NoErr)
    /\ [][\A w \in DOMAIN workers :
             (/\ Steps(w)
              /\ ~Returned(w)
              /\ workers'[w].got.id # <<>>
              /\ builds[workers[w].path] = BuildAbsent)
             => /\ fs' = fs
                /\ result' = result
                /\ writes' = writes
                /\ egErr' = egErr
                /\ computeCount' = computeCount]_vars

\* C14's case: two protos of a directory without BUILD file were skipped,
\* one by the task whose call read the directory and one by a task that
\* joined that call.
C14_Witness ==
    \E w1, w2 \in DOMAIN workers :
        /\ w1 # w2
        /\ workers[w1].path = workers[w2].path
        /\ builds[workers[w1].path] = BuildAbsent
        /\ Returned(w1)
        /\ Returned(w2)
        /\ w1 \in DOMAIN calls
        /\ w2 \notin DOMAIN calls
        /\ workers[w1].err = NoErr
        /\ workers[w2].err = NoErr

\* The BUILD file of task w parses, and no proto_library rule of it lists
\* the base name of w's proto.
Unowned(w) ==
    LET r == parseBuildFile(builds[workers[w].path]) IN
    /\ r.err = ""
    /\ Base(workers[w].proto) \notin DOMAIN r.val.protoFileToRule

\* The BUILD file of task w parses and a proto_library rule of it owns w's
\* proto, but no generation rule of the file refers to that rule.
OwnerWithoutRules(w) ==
    LET r == parseBuildFile(builds[workers[w].path]) IN
    /\ r.err = ""
    /\ Base(workers[w].proto) \in DOMAIN r.val.protoFileToRule
    /\ r.val.protoFileToRule[Base(workers[w].proto)]
          \notin DOMAIN r.val.protoRuleToLangProtoRules

\* C15: when the proto's base name is owned by no proto_library rule of its
\* BUILD file, or its owning rule has no generation rules, syncProto returns
\* nil: the task ends without error, without resolving the output directory,
\* and the step changes no counter and writes nothing.
C15_LookupMissSkipped ==
    /\ [](\A w \in DOMAIN workers :
             (Returned(w) /\ (Unowned(w) \/ OwnerWithoutRules(w))) =>
                /\ workers[w].pc = "done"
                /\ workers[w].err = NoErr)
    /\ [](computeCount > 0 =>
             \E w \in DOMAIN workers :
                Returned(w) /\ ~Unowned(w) /\ ~OwnerWithoutRules(w))
    /\ [][\A w \in DOMAIN workers :
             (/\ Steps(w)
              /\ ~Returned(w)
              /\ workers'[w].got.id # <<>>
              /\ (Unowned(w) \/ OwnerWithoutRules(w)))
             => /\ fs' = fs
                /\ result' = result
                /\ writes' = writes
                /\ egErr' = egErr
                /\ binCache' = binCache
                /\ computeCount' = computeCount]_vars

\* C15's case: one task's proto is in no rule's srcs, another's is owned by
\* a rule without generation rules, both have returned nil and the output
\* directory was not resolved.
C15_Witness ==
    \E w1, w2 \in DOMAIN workers :
        /\ Returned(w1)
        /\ Unowned(w1)
        /\ Returned(w2)
        /\ OwnerWithoutRules(w2)
        /\ workers[w1].err = NoErr
        /\ workers[w2].err = NoErr
        /\ computeCount = 0

\* C16: when the listing command fails in a workspace, copyGeneratedProtos
\* returns an empty successful outcome if <root>/.git does not exist and an
\* error if it does; either way no task is started, no rule file is parsed
\* and no file is written.
C16_ListingFallback ==
    /\ [](mainPc = "run" => ~lsFails)
    /\ []((mainPc \in {"returned", "exit1"} /\ curRoot = WsRoot /\ lsFails) =>
             /\ ~hasGit =>
                   ret = [err |-> NoErr, ok |-> TRUE, result |-> ZeroResult]
             /\ hasGit =>
                   ret = [err |-> Err("ls-files", WsRoot), ok |-> FALSE,
                          result |-> ZeroResult]
             /\ workers = <<>>
             /\ parseCount = <<>>
             /\ computeCount = 0
             /\ writes = 0
             /\ fs = fs0)
    /\ [](lsFails => (fs = fs0 /\ total = ZeroResult))
    /\ [][lsFails => (fs' = fs /\ binCache' = binCache)]_vars

\* C16's case: the listing failed in a workspace without .git, and main has
\* finished with nothing written and nothing counted.
C16_Witness ==
    /\ mainPc = "exit0"
    /\ lsFails
    /\ ~hasGit
    /\ curRoot = WsRoot
    /\ ret.ok
    /\ total = ZeroResult

\* C17: a missing marker file is fatal for its workspace root only: when
\* the program ends on that error, no sibling root of dirs is left that
\* copyGeneratedProtos was never called for.
C17_SiblingsProcessed ==
    (mainPc = "exit1" /\ ret.err.kind = "not-a-workspace") =>
        dirsDone + 1 = Len(dirs)

\* The import path starts with github.com/<org>/<repo>/.
HasGithubPrefix(importPath) ==
    Len(importPath) >= 4 /\ importPath[1] = "github.com"

\* C18: for a Go generation rule whose import path starts with
\* github.com/<org>/<repo>/, each destination is workspaceRoot / the import
\* path without that prefix / the artifact's base name, with one pair per
\* generated file; for every import path without that prefix the locator
\* returns an error and no pair.
C18_GoPathDerivation ==
    (mainPc = "locator" /\ locOut # NotLocated /\ locIn.r.kind = goProtoLibrary) =>
        LET ip == locIn.r.importPath IN
        IF HasGithubPrefix(ip)
        THEN /\ locOut.err = ""
             /\ {locOut.pairs[i].src : i \in DOMAIN locOut.pairs} = DOMAIN locIn.tree
             /\ \A i \in DOMAIN locOut.pairs :
                   locOut.pairs[i].dest
                      = Join(Join(WsRoot, SubSeq(ip, 4, Len(ip))),
                             <<Base(locOut.pairs[i].src)>>)
        ELSE /\ locOut.err # ""
             /\ locOut.pairs = <<>>

\* getSrcAndDest returns an error for one of the generation rules of task
\* w's proto.
LocatorFails(w) ==
    LET r == parseBuildFile(builds[workers[w].path])
        l == getLangProtoRulesForProto(r.val, workers[w].proto)
    IN /\ r.err = ""
       /\ l.ok
       /\ \E i \in DOMAIN l.rules :
             getSrcAndDest(l.rules[i], curRoot, BazelBinValue, workers[w].proto,
                           out).err # ""

\* C19: a locator error is a hard error of the run: a task for whose proto
\* getSrcAndDest returns an error for some generation rule returns an error,
\* and copyGeneratedProtos fails; the error is never dropped.
C19_LocatorErrorFatal ==
    /\ \A w \in DOMAIN workers :
          (workers[w].pc = "done" /\ LocatorFails(w)) => workers[w].err # NoErr
    /\ (mainPc = "returned" /\ \E w \in DOMAIN workers : LocatorFails(w))
          => ~ret.ok

RECURSIVE SeqPairs(_, _)
\* syncProto's pair loop run alone on the pairs ps from the tree and the
\* counters of st, every read and write succeeding.
SeqPairs(ps, st) ==
    IF ps = <<>> THEN st
    ELSE LET pr == Head(ps) IN
         IF pr.src \notin DOMAIN out THEN SeqPairs(Tail(ps), st)
         ELSE IF out[pr.src] = TreeGet(st.fs, pr.dest)
         THEN SeqPairs(Tail(ps),
                       [st EXCEPT !.result.upToDate = @ + 1])
         ELSE SeqPairs(Tail(ps),
                       [fs |-> MapPut(st.fs, pr.dest, out[pr.src]),
                        result |-> [st.result EXCEPT !.created = @ + 1]])

RECURSIVE SeqTasks(_)
\* The tree and the counters after the tasks 1..n have run one after the
\* other, in the order of protos, on the tree the call found.
SeqTasks(n) ==
    IF n = 0 THEN [fs |-> fs0, result |-> ZeroResult]
    ELSE SeqPairs(AllPairs(n), SeqTasks(n - 1))

\* C20: the content of every destination file and the counters returned
\* after a successful run are a function of the inputs (proto list, rule
\* files, output tree, initial source tree): whatever the interleaving of
\* the tasks, they are the ones of the run that takes the tasks one after
\* the other, also when two protos or rules resolve to one destination.
C20_Deterministic ==
    (mainPc = "returned" /\ ret.ok /\ workers # <<>>) =>
        /\ fs = SeqTasks(Len(workers)).fs
        /\ ret.result = SeqTasks(Len(workers)).result

\* The path p lies inside the directory root.
InsideRoot(p, root) ==
    Len(p) > Len(root) /\ SubSeq(p, 1, Len(root)) = root

\* C22: every task copyGeneratedProtos starts is for a line of the listing,
\* a .proto file inside workspaceRoot: there is one task per listed file and
\* none for an empty line, the rule file a task asks the parser for is
\* dir(p)/BUILD inside workspaceRoot, and no BUILD file outside the root is
\* read.
C22_TasksAreListedProtos ==
    (mainPc \in {"run", "returned"} /\ curRoot = WsRoot /\ ~lsFails) =>
        /\ Len(workers) = Len(listing)
        /\ \A w \in DOMAIN workers :
              /\ \E i \in DOMAIN listing :
                    workers[w].proto = Join(curRoot, listing[i])
              /\ workers[w].path = Join(Dir(workers[w].proto), <<"BUILD">>)
              /\ InsideRoot(workers[w].path, curRoot)
        /\ \A p \in DOMAIN parseCount : InsideRoot(p, curRoot)

\* Task w is inside buildFileParser.Parse.
InParse(w) ==
    workers[w].pc \in {"start", "wait", "fn", "rlocked", "parse", "cachew",
                       "wlocked", "fdone"}

\* C21: every buildFileParser.Parse call eventually returns, whatever the
\* interleaving of callers for the same or for different paths; the mutex is
\* held only across the cache access, by one writer or by readers, and never
\* while parseBuildFile runs or while a task waits for a call in flight; a
\* caller whose path has no call in flight is not made to wait for the call
\* of another path.
C21_ParseReturns ==
    /\ \A w \in TaskIds :
          (mainPc = "run" /\ w \in DOMAIN workers /\ InParse(w))
             ~> (w \in DOMAIN workers /\ Returned(w))
    /\ [](/\ mu.readers = {w \in DOMAIN workers : workers[w].pc = "rlocked"}
          /\ mu.writers = {w \in DOMAIN workers : workers[w].pc = "wlocked"}
          /\ Cardinality(mu.writers) <= 1
          /\ mu.writers # {} => mu.readers = {}
          /\ \A k \in DOMAIN group :
                /\ group[k] \in DOMAIN workers
                /\ workers[group[k]].path = k
                /\ workers[group[k]].pc \in {"fn", "rlocked", "parse", "cachew",
                                             "wlocked", "fdone"}
          /\ \A w \in DOMAIN workers :
                workers[w].pc = "wait" =>
                   \/ workers[w].call \in DOMAIN calls
                   \/ /\ workers[w].path \in DOMAIN group
                      /\ group[workers[w].path] = workers[w].call)
    /\ [][\A w \in DOMAIN workers :
             (Steps(w) /\ workers[w].pc = "start"
                /\ workers[w].path \notin DOMAIN group)
             => workers'[w].pc = "fn"]_vars

\* C21's case: parseBuildFile is running for two different paths at once
\* while a third caller waits for one of the two calls.
C21_Witness ==
    \E w1, w2, w3 \in DOMAIN workers :
        /\ workers[w1].pc = "parse"
        /\ workers[w2].pc = "parse"
        /\ workers[w1].path # workers[w2].path
        /\ workers[w3].pc = "wait"
        /\ workers[w3].call = w1

\* The srcs of rule r with the leading ":" stripped.
SrcNamesOf(r) == {TrimColon(r.srcs[i]) : i \in 1..Len(r.srcs)}

\* Two distinct proto_library rules of the file declare a common source.
SharedSrc(rules) ==
    \E i, j \in 1..Len(rules) :
        /\ i # j
        /\ rules[i].kind = protoLibrary
        /\ rules[j].kind = protoLibrary
        /\ rules[i].hasSrcs
        /\ rules[j].hasSrcs
        /\ SrcNamesOf(rules[i]) \cap SrcNamesOf(rules[j]) # {}

\* C9: parseBuildFile returns an error whenever one source name is declared
\* in the srcs of two distinct proto_library rules of the file, whatever the
\* rules' names.
C9_OwnershipError ==
    (parsed # NotParsed /\ SharedSrc(bf.rules)) => parsed.err # ""

\* A generation rule whose proto attribute points outside the BUILD file.
CrossFile(r) ==
    /\ r.kind \in {goProtoLibrary, tsProtoLibrary}
    /\ r.proto # ""
    /\ ~(\E n \in LabelNames : r.proto = ":" \o n)

\* The rules of the file without the cross-file generation rules.
WithoutCrossFile(rules) == SelectSeq(rules, LAMBDA r : ~CrossFile(r))

\* The generation rules the index holds.
IndexedRules(val) ==
    UNION { {val.protoRuleToLangProtoRules[k][i] :
                i \in 1..Len(val.protoRuleToLangProtoRules[k])}
            : k \in DOMAIN val.protoRuleToLangProtoRules }

\* C10: a go_proto_library or ts_proto_library rule whose proto attribute
\* references a proto_library outside its own BUILD file is never in
\* ruleToGenerators, so no lookup returns it and no pair comes from it, and
\* it does not make the parse fail: the file parses to what it parses to
\* with those rules deleted.
C10_CrossFileSkipped ==
    parsed # NotParsed =>
        /\ parsed = parseBuildFile(BuildOk(WithoutCrossFile(bf.rules)))
        /\ \A i \in 1..Len(bf.rules) :
              CrossFile(bf.rules[i]) =>
                 /\ \A lr \in IndexedRules(parsed.val) :
                       ~(lr.kind = bf.rules[i].kind /\ lr.name = bf.rules[i].name)
                 /\ \A n \in {"a.proto", "b.proto"} :
                       LET l == getLangProtoRulesForProto(parsed.val, <<"ws", "pkg", n>>)
                       IN \A k \in 1..Len(l.rules) : l.rules[k].name # bf.rules[i].name

\* C10's case: a file with a cross-file generation rule that lacks the
\* attribute a same-file rule must have, next to an indexed same-file rule,
\* parsed without error.
C10_Witness ==
    /\ parsed # NotParsed
    /\ parsed.err = ""
    /\ \E i \in 1..Len(bf.rules) :
          CrossFile(bf.rules[i]) /\ bf.rules[i].kind = goProtoLibrary
    /\ IndexedRules(parsed.val) # {}

====
